---- MODULE Spec2Model ----
(***************************************************************************)
(* Token-owned-escrow CLI helpers (token-metadata/cli/escrow).             *)
(*                                                                         *)
(* The model follows helpers/toe.ts (createTOE, transferIn) and the CLI    *)
(* entry point (programCommand('create').action) statement by statement.   *)
(* Every await of a network round trip is a suspension point: the helper   *)
(* stops there (pc) and the network (clock, ledger) may move before the    *)
(* call resolves or rejects.  Helpers run one at a time, as in a CLI       *)
(* process.                                                                *)
(***************************************************************************)
EXTENDS Integers, Sequences, FiniteSets, TLC

VARIABLES
    pc,                     \* where the running invocation is suspended ("idle": none)
    inv,                    \* number of invocations started so far
    helper,                 \* the entry point of the running invocation
    args,                   \* its arguments
    escrowAccountAddress,   \* createTOE's local: the result of findToePda
    tx,                     \* the local Transaction object
    trace,                  \* calls the running invocation has made, with their outcome
    results,                \* finished invocations, oldest first
    sent,                   \* transactions the RPC node accepted, with their fate
    escrows,                \* ledger: escrow accounts that exist
    deposits,               \* ledger: funded destination token accounts
    clock,                  \* ledger: the current blockhash
    cliOpts                 \* options parsed by the last CLI invocation

vars == <<pc, inv, helper, args, escrowAccountAddress, tx, trace, results, sent,
          escrows, deposits, clock, cliOpts>>

-----------------------------------------------------------------------------
(* Bounds of the exploration *)

MaxCalls == 2       \* invocations per run
MaxHash == 1        \* the blockhash advances at most this many times

NftIds == 1 .. 2            \* NFTs createTOE is called for
EscrowNftIds == 1 .. 1      \* NFTs whose escrow transferIn is called for
DepositIds == 3 .. 3        \* tokens that can be deposited
KeypairIds == 1 .. 2
Connections == {"devnet"}
AmountOptions == {"unset", "5"}
KeypairOptions == {"--keypair not provided", "id.json"}

-----------------------------------------------------------------------------
(* Public keys: <<kind, seed, seed>>.  A derived key keeps the codes of    *)
(* the keys it was derived from, so derivation is injective.               *)

NoKey == <<"undefined", 0, 0>>
SystemProgram == <<"SystemProgram", 0, 0>>
ConstraintModelKey == <<"CjWwgEJUBdb2iYjZsDng5qkYRC8f3rQeqr4k1j9jExr5", 0, 0>>

KindIx(k) ==
    CASE k = "mint" -> 1
      [] k = "metadata" -> 2
      [] k = "edition" -> 3
      [] k = "token" -> 4
      [] k = "wallet" -> 5
      [] k = "toe" -> 6
      [] OTHER -> 7

Code(key) == KindIx(key[1]) * 100 + key[2]

Keypair(j) == [publicKey |-> <<"wallet", j, 0>>, secret |-> j]

NftWithToken(i) ==
    [mint |-> [address |-> <<"mint", i, 0>>],
     metadataAddress |-> <<"metadata", i, 0>>,
     edition |-> [address |-> <<"edition", i, 0>>],
     token |-> [address |-> <<"token", i, 0>>]]

\* Program-derived address (with its bump seed) of the escrow of a mint.
findToePda(mint) == << <<"toe", Code(mint), 0>>, 255 - (Code(mint) % 3) >>

\* Associated token account of `owner` for `mint`.
getAssociatedTokenAddress(mint, owner, allowOwnerOffCurve) ==
    <<"ata", Code(mint), Code(owner)>>

-----------------------------------------------------------------------------
(* Instruction builders *)

\* Ordered account list of the create-escrow instruction; the system program
\* is filled in when not supplied, an absent optional account is left out.
createCreateEscrowAccountInstruction(accounts) ==
    [name |-> "CreateEscrowAccount",
     keys |-> << [role |-> "escrow", pubkey |-> accounts.escrow],
                 [role |-> "metadata", pubkey |-> accounts.metadata],
                 [role |-> "mint", pubkey |-> accounts.mint],
                 [role |-> "edition", pubkey |-> accounts.edition],
                 [role |-> "payer", pubkey |-> accounts.payer],
                 [role |-> "systemProgram", pubkey |-> SystemProgram] >>
             \o (IF accounts.escrowConstraintModel = NoKey THEN <<>>
                 ELSE << [role |-> "escrowConstraintModel",
                          pubkey |-> accounts.escrowConstraintModel] >>),
     data |-> << "CreateEscrowAccount" >>]

createTransferIntoEscrowInstruction(accounts, ixargs) ==
    [name |-> "TransferIntoEscrow",
     keys |-> << [role |-> "escrow", pubkey |-> accounts.escrow],
                 [role |-> "payer", pubkey |-> accounts.payer],
                 [role |-> "attributeMint", pubkey |-> accounts.attributeMint],
                 [role |-> "attributeSrc", pubkey |-> accounts.attributeSrc],
                 [role |-> "attributeDst", pubkey |-> accounts.attributeDst],
                 [role |-> "attributeMetadata", pubkey |-> accounts.attributeMetadata],
                 [role |-> "escrowMint", pubkey |-> accounts.escrowMint],
                 [role |-> "escrowAccount", pubkey |-> accounts.escrowAccount],
                 [role |-> "constraintModel", pubkey |-> accounts.constraintModel] >>,
     data |-> << "TransferIntoEscrow",
                 ixargs.transferIntoEscrowArgs.amount,
                 ixargs.transferIntoEscrowArgs.index >>]

AccountOf(ix, role) ==
    LET hits == {i \in 1 .. Len(ix.keys) : ix.keys[i].role = role}
    IN IF hits = {} THEN NoKey ELSE ix.keys[CHOOSE i \in hits : TRUE].pubkey

-----------------------------------------------------------------------------
(* Transactions *)

NoHash == -1
NoTx == [instructions |-> <<>>, recentBlockhash |-> NoHash, feePayer |-> NoKey]
NoAddress == <<>>

\* new Transaction().add(ix)
NewTransaction(ix) ==
    [instructions |-> <<ix>>, recentBlockhash |-> NoHash, feePayer |-> NoKey]

Ev(call, out, val) == [call |-> call, out |-> out, val |-> val]

RpcErrors == {"fetch failed"}

\* A blockhash is accepted only while it is the ledger's current one.
Stale(h) == h # clock

-----------------------------------------------------------------------------
(* Bookkeeping shared by the entry points *)

Idle ==
    /\ pc' = "idle"
    /\ helper' = "none"
    /\ args' = [none |-> TRUE]
    /\ escrowAccountAddress' = NoAddress
    /\ tx' = NoTx
    /\ trace' = <<>>

\* The running invocation ends: it returned `value` or threw `error`.
Finish(outcome, value, error, tr) ==
    /\ results' = Append(results,
                         [inv |-> inv, helper |-> helper, args |-> args,
                          outcome |-> outcome, value |-> value, error |-> error,
                          trace |-> tr, tx |-> tx])
    /\ Idle

\* connection.sendTransaction(tx, signers, options) resolved with a signature:
\* the RPC node took the signed transaction.
Submit(signers, options) ==
    sent' = Append(sent,
                   [inv |-> inv, tx |-> tx,
                    signers |-> [k \in 1 .. Len(signers) |-> signers[k].publicKey],
                    skipPreflight |-> options.skipPreflight,
                    status |-> "pending"])

\* Errors with which sendTransaction can reject.  The preflight simulation
\* runs only when it is not skipped; it refuses a blockhash the node no longer
\* knows and reports a failing program run.
SendErrors(t, options) ==
    RpcErrors
      \cup (IF ~options.skipPreflight /\ Stale(t.recentBlockhash)
            THEN {"Blockhash not found"} ELSE {})
      \cup (IF ~options.skipPreflight /\ ~Stale(t.recentBlockhash)
            THEN {"Transaction simulation failed"} ELSE {})

\* The RPC node takes the transaction unless preflight refuses its blockhash.
SendAccepts(t, options) == options.skipPreflight \/ ~Stale(t.recentBlockhash)

-----------------------------------------------------------------------------
(* createTOE *)

\* Variant: the address is derived from the payer's key instead of the mint.
createTOE_escrowAccountAddress_fromPayer(connection, nft, keypair) ==
    findToePda(keypair.publicKey)

createTOE_escrowAccountAddress(connection, nft, keypair) ==
    findToePda(nft.mint.address)

\* Variant: the constraint-model account is supplied.
createTOE_createIX_withModel(pda, nft, keypair) ==
    createCreateEscrowAccountInstruction(
        [escrow |-> pda[1],
         metadata |-> nft.metadataAddress,
         mint |-> nft.mint.address,
         edition |-> nft.edition.address,
         payer |-> keypair.publicKey,
         escrowConstraintModel |-> ConstraintModelKey])

createTOE_createIX(pda, nft, keypair) ==
    createCreateEscrowAccountInstruction(
        [escrow |-> pda[1],
         metadata |-> nft.metadataAddress,
         mint |-> nft.mint.address,
         edition |-> nft.edition.address,
         payer |-> keypair.publicKey,
         escrowConstraintModel |-> NoKey])

createTOE_sendOptions == [skipPreflight |-> FALSE]

\* Variant: the function ends without a return value.
createTOE_return_nothing(pda) == NoAddress

createTOE_return(pda) == pda

\* Variant: an idempotency check; an existing escrow account ends the call
\* before anything is submitted.
createTOE_call_idempotent ==
    /\ pc = "idle"
    /\ inv < MaxCalls
    /\ \E c \in Connections, i \in NftIds, j \in KeypairIds :
         LET nft == NftWithToken(i)
             keypair == Keypair(j)
             pda == findToePda(nft.mint.address)
             a == [connection |-> c, nft |-> nft, keypair |-> keypair]
             exists == \E acc \in escrows : acc.address = pda[1]
             createIX == createCreateEscrowAccountInstruction(
                             [escrow |-> pda[1],
                              metadata |-> nft.metadataAddress,
                              mint |-> nft.mint.address,
                              edition |-> nft.edition.address,
                              payer |-> keypair.publicKey,
                              escrowConstraintModel |-> NoKey])
         IN /\ inv' = inv + 1
            /\ IF exists
               THEN /\ results' = Append(results,
                           [inv |-> inv + 1, helper |-> "createTOE", args |-> a,
                            outcome |-> "returned", value |-> pda,
                            error |-> "none",
                            trace |-> << Ev("findToePda", "ok", 0),
                                         Ev("getAccountInfo", "ok", 0) >>,
                            tx |-> NoTx])
                    /\ UNCHANGED <<pc, helper, args, escrowAccountAddress, tx,
                                   trace>>
               ELSE /\ helper' = "createTOE"
                    /\ args' = a
                    /\ escrowAccountAddress' = pda
                    /\ tx' = NewTransaction(createIX)
                    /\ trace' = << Ev("findToePda", "ok", 0),
                                   Ev("getAccountInfo", "ok", 0),
                                   Ev("createCreateEscrowAccountInstruction", "ok", 0),
                                   Ev("Transaction.add", "ok", 0) >>
                    /\ pc' = "createTOE:getLatestBlockhash"
                    /\ UNCHANGED results
    /\ UNCHANGED <<sent, escrows, deposits, clock, cliOpts>>

\* Lines 10-24: derive the address, build the instruction and the
\* transaction, then wait for the latest blockhash.
createTOE_call ==
    /\ pc = "idle"
    /\ inv < MaxCalls
    /\ \E c \in Connections, i \in NftIds, j \in KeypairIds :
         LET nft == NftWithToken(i)
             keypair == Keypair(j)
             pda == createTOE_escrowAccountAddress(c, nft, keypair)
             createIX == createTOE_createIX(pda, nft, keypair)
         IN /\ inv' = inv + 1
            /\ helper' = "createTOE"
            /\ args' = [connection |-> c, nft |-> nft, keypair |-> keypair]
            /\ escrowAccountAddress' = pda
            /\ tx' = NewTransaction(createIX)
            /\ trace' = << Ev("findToePda", "ok", 0),
                           Ev("createCreateEscrowAccountInstruction", "ok", 0),
                           Ev("Transaction.add", "ok", 0) >>
            /\ pc' = "createTOE:getLatestBlockhash"
    /\ UNCHANGED <<results, sent, escrows, deposits, clock, cliOpts>>

\* Variant: no fetch; a blockhash cached by an earlier call is used.
createTOE_getLatestBlockhash_cached ==
    /\ pc = "createTOE:getLatestBlockhash"
    /\ tx' = [tx EXCEPT !.recentBlockhash = 0,
                        !.feePayer = args.keypair.publicKey]
    /\ pc' = "createTOE:sendTransaction"
    /\ UNCHANGED <<inv, helper, args, escrowAccountAddress, trace, results, sent,
                   escrows, deposits, clock, cliOpts>>

\* Lines 24-27: the blockhash arrives; set it and the fee payer, submit.
createTOE_getLatestBlockhash_returns ==
    /\ pc = "createTOE:getLatestBlockhash"
    /\ tx' = [tx EXCEPT !.recentBlockhash = clock,
                        !.feePayer = args.keypair.publicKey]
    /\ trace' = Append(trace, Ev("getLatestBlockhash", "ok", clock))
    /\ pc' = "createTOE:sendTransaction"
    /\ UNCHANGED <<inv, helper, args, escrowAccountAddress, results, sent,
                   escrows, deposits, clock, cliOpts>>

\* Line 24 rejects: the error leaves createTOE.
createTOE_getLatestBlockhash_throws ==
    /\ pc = "createTOE:getLatestBlockhash"
    /\ \E e \in RpcErrors :
         Finish("threw", NoAddress, e, Append(trace, Ev("getLatestBlockhash", e, 0)))
    /\ UNCHANGED <<inv, sent, escrows, deposits, clock, cliOpts>>

\* Lines 27-29: the submission resolved; return the derived address.
createTOE_sendTransaction_returns ==
    /\ pc = "createTOE:sendTransaction"
    /\ SendAccepts(tx, createTOE_sendOptions)
    /\ Submit(<<args.keypair>>, createTOE_sendOptions)
    /\ Finish("returned", createTOE_return(escrowAccountAddress), "none",
              Append(trace, Ev("sendTransaction", "ok", 0)))
    /\ UNCHANGED <<inv, escrows, deposits, clock, cliOpts>>

\* Variant: a failed submission is retried with a fresh blockhash.
createTOE_sendTransaction_retries ==
    /\ pc = "createTOE:sendTransaction"
    /\ \E e \in SendErrors(tx, createTOE_sendOptions) :
         trace' = Append(trace, Ev("sendTransaction", e, 0))
    /\ pc' = "createTOE:getLatestBlockhash"
    /\ UNCHANGED <<inv, helper, args, escrowAccountAddress, tx, results, sent,
                   escrows, deposits, clock, cliOpts>>

\* Line 27 rejects: the error leaves createTOE.
createTOE_sendTransaction_throws ==
    /\ pc = "createTOE:sendTransaction"
    /\ \E e \in SendErrors(tx, createTOE_sendOptions) :
         Finish("threw", NoAddress, e, Append(trace, Ev("sendTransaction", e, 0)))
    /\ UNCHANGED <<inv, sent, escrows, deposits, clock, cliOpts>>

-----------------------------------------------------------------------------
(* transferIn *)

transferIn_dst(nft, escrowAddress) ==
    getAssociatedTokenAddress(nft.mint.address, escrowAddress, TRUE)

\* Variant: the amount comes from the CLI's --amount option.
transferIn_transferIX_cliAmount(escrowNft, escrowAddress, nft, keypair, dst) ==
    createTransferIntoEscrowInstruction(
        [escrow |-> escrowAddress,
         payer |-> keypair.publicKey,
         attributeMint |-> nft.mint.address,
         attributeSrc |-> nft.token.address,
         attributeDst |-> dst,
         attributeMetadata |-> nft.metadataAddress,
         escrowMint |-> escrowNft.mint.address,
         escrowAccount |-> escrowNft.token.address,
         constraintModel |-> ConstraintModelKey],
        [transferIntoEscrowArgs |->
            [amount |-> IF cliOpts.amount = "5" THEN 5 ELSE 1, index |-> 1]])

transferIn_transferIX(escrowNft, escrowAddress, nft, keypair, dst) ==
    createTransferIntoEscrowInstruction(
        [escrow |-> escrowAddress,
         payer |-> keypair.publicKey,
         attributeMint |-> nft.mint.address,
         attributeSrc |-> nft.token.address,
         attributeDst |-> dst,
         attributeMetadata |-> nft.metadataAddress,
         escrowMint |-> escrowNft.mint.address,
         escrowAccount |-> escrowNft.token.address,
         constraintModel |-> ConstraintModelKey],
        [transferIntoEscrowArgs |-> [amount |-> 1, index |-> 1]])

\* Variant: the default options, preflight enabled.
transferIn_sendOptions_preflight == [skipPreflight |-> FALSE]

transferIn_sendOptions == [skipPreflight |-> TRUE]

\* Lines 32-71: derive the destination account, build the instruction and the
\* transaction, then wait for the latest blockhash.  The caller passes the
\* escrow address of escrowNft, element 0 of what createTOE returns.
transferIn_call ==
    /\ pc = "idle"
    /\ inv < MaxCalls
    /\ \E c \in Connections, e \in EscrowNftIds, d \in DepositIds, j \in KeypairIds :
         LET escrowNft == NftWithToken(e)
             escrowAddress == findToePda(escrowNft.mint.address)[1]
             nft == NftWithToken(d)
             keypair == Keypair(j)
             dst == transferIn_dst(nft, escrowAddress)
             transferIX == transferIn_transferIX(escrowNft, escrowAddress, nft,
                                                 keypair, dst)
         IN /\ inv' = inv + 1
            /\ helper' = "transferIn"
            /\ args' = [connection |-> c, escrowNft |-> escrowNft,
                        escrowAccountAddress |-> escrowAddress, nft |-> nft,
                        keypair |-> keypair]
            /\ escrowAccountAddress' = NoAddress
            /\ tx' = NewTransaction(transferIX)
            /\ trace' = << Ev("getAssociatedTokenAddress", "ok", 0),
                           Ev("createTransferIntoEscrowInstruction", "ok", 0),
                           Ev("Transaction.add", "ok", 0) >>
            /\ pc' = "transferIn:getLatestBlockhash"
    /\ UNCHANGED <<results, sent, escrows, deposits, clock, cliOpts>>

\* Lines 71-75: the blockhash arrives; set it and the fee payer, submit.
transferIn_getLatestBlockhash_returns ==
    /\ pc = "transferIn:getLatestBlockhash"
    /\ tx' = [tx EXCEPT !.recentBlockhash = clock,
                        !.feePayer = args.keypair.publicKey]
    /\ trace' = Append(trace, Ev("getLatestBlockhash", "ok", clock))
    /\ pc' = "transferIn:sendTransaction"
    /\ UNCHANGED <<inv, helper, args, escrowAccountAddress, results, sent,
                   escrows, deposits, clock, cliOpts>>

\* Line 71 rejects: the error leaves transferIn.
transferIn_getLatestBlockhash_throws ==
    /\ pc = "transferIn:getLatestBlockhash"
    /\ \E e \in RpcErrors :
         Finish("threw", NoAddress, e, Append(trace, Ev("getLatestBlockhash", e, 0)))
    /\ UNCHANGED <<inv, sent, escrows, deposits, clock, cliOpts>>

\* Lines 75-76: the submission resolved; transferIn ends without a value.
transferIn_sendTransaction_returns ==
    /\ pc = "transferIn:sendTransaction"
    /\ SendAccepts(tx, transferIn_sendOptions)
    /\ Submit(<<args.keypair>>, transferIn_sendOptions)
    /\ Finish("returned", NoAddress, "none",
              Append(trace, Ev("sendTransaction", "ok", 0)))
    /\ UNCHANGED <<inv, escrows, deposits, clock, cliOpts>>

\* Variant: a failed transfer is compensated by closing the escrow account.
transferIn_sendTransaction_compensates ==
    /\ pc = "transferIn:sendTransaction"
    /\ \E e \in SendErrors(tx, transferIn_sendOptions) :
         Finish("threw", NoAddress, e,
                trace \o << Ev("sendTransaction", e, 0),
                            Ev("sendTransaction", "ok", 0) >>)
    /\ sent' = Append(sent,
           [inv |-> inv,
            tx |-> [tx EXCEPT !.instructions =
                       << [name |-> "CloseEscrowAccount",
                           keys |-> << [role |-> "escrow",
                                        pubkey |-> args.escrowAccountAddress] >>,
                           data |-> << "CloseEscrowAccount" >>] >>],
            signers |-> << args.keypair.publicKey >>,
            skipPreflight |-> TRUE,
            status |-> "pending"])
    /\ UNCHANGED <<inv, escrows, deposits, clock, cliOpts>>

\* Line 75 rejects: the error leaves transferIn.
transferIn_sendTransaction_throws ==
    /\ pc = "transferIn:sendTransaction"
    /\ \E e \in SendErrors(tx, transferIn_sendOptions) :
         Finish("threw", NoAddress, e, Append(trace, Ev("sendTransaction", e, 0)))
    /\ UNCHANGED <<inv, sent, escrows, deposits, clock, cliOpts>>

-----------------------------------------------------------------------------
(* CLI: programCommand('create').action *)

NoOpts == [keypair |-> "", env |-> "", rpc |-> "", amount |-> ""]

CliOptions ==
    [keypair : KeypairOptions, env : {"devnet"},
     rpc : {"unset"}, amount : AmountOptions]

\* Lines 34-37: read keypair, env and rpc from the options, call use_metaplex.
create_action ==
    /\ pc = "idle"
    /\ inv < MaxCalls
    /\ \E opts \in CliOptions :
         /\ cliOpts' = opts
         /\ args' = [keypair |-> opts.keypair, env |-> opts.env, rpc |-> opts.rpc]
    /\ inv' = inv + 1
    /\ helper' = "create"
    /\ pc' = "create:use_metaplex"
    /\ UNCHANGED <<escrowAccountAddress, tx, trace, results, sent, escrows,
                   deposits, clock>>

\* Variant: the action is wired to createTOE.
create_use_metaplex_wired ==
    /\ pc = "create:use_metaplex"
    /\ \E i \in NftIds, j \in KeypairIds :
         LET nft == NftWithToken(i)
             keypair == Keypair(j)
             pda == findToePda(nft.mint.address)
         IN /\ args' = [connection |-> "devnet", nft |-> nft, keypair |-> keypair]
            /\ escrowAccountAddress' = pda
            /\ tx' = NewTransaction(createTOE_createIX(pda, nft, keypair))
    /\ trace' = Append(trace, Ev("use_metaplex", "ok", 0))
    /\ pc' = "createTOE:getLatestBlockhash"
    /\ UNCHANGED <<inv, helper, results, sent, escrows, deposits, clock, cliOpts>>

\* Lines 37-38: the client handle arrives; the action ends.
create_use_metaplex_returns ==
    /\ pc = "create:use_metaplex"
    /\ Finish("returned", NoAddress, "none",
              Append(trace, Ev("use_metaplex", "ok", 0)))
    /\ UNCHANGED <<inv, sent, escrows, deposits, clock, cliOpts>>

\* Line 37 rejects (an unreadable keypair file): the error leaves the action.
create_use_metaplex_throws ==
    /\ pc = "create:use_metaplex"
    /\ \E e \in {"ENOENT"} :
         Finish("threw", NoAddress, e, Append(trace, Ev("use_metaplex", e, 0)))
    /\ UNCHANGED <<inv, sent, escrows, deposits, clock, cliOpts>>

-----------------------------------------------------------------------------
(* The network and the on-chain program *)

Tick ==
    /\ clock < MaxHash
    /\ clock' = clock + 1
    /\ UNCHANGED <<pc, inv, helper, args, escrowAccountAddress, tx, trace,
                   results, sent, escrows, deposits, cliOpts>>

EscrowExists(address) == \E acc \in escrows : acc.address = address

Settle(k, status) == sent' = [sent EXCEPT ![k].status = status]

\* A transaction is executed only with a known blockhash and its fee payer's
\* signature.
Executable(t) ==
    /\ ~Stale(t.tx.recentBlockhash)
    /\ \E s \in 1 .. Len(t.signers) : t.signers[s] = t.tx.feePayer
    /\ Len(t.tx.instructions) = 1

\* The program creates the escrow account, unless it already exists.
ProgramCreateEscrowAccount(k) ==
    LET ix == sent[k].tx.instructions[1]
        address == AccountOf(ix, "escrow")
    IN /\ ix.name = "CreateEscrowAccount"
       /\ ~EscrowExists(address)
       /\ escrows' = escrows \cup {[address |-> address, createdBy |-> k]}
       /\ UNCHANGED deposits

\* The program moves the tokens to the escrow's destination account.
ProgramTransferIntoEscrow(k) ==
    LET ix == sent[k].tx.instructions[1]
    IN /\ ix.name = "TransferIntoEscrow"
       /\ EscrowExists(AccountOf(ix, "escrow"))
       /\ deposits' = deposits \cup {[account |-> AccountOf(ix, "attributeDst"),
                                      amount |-> ix.data[2], by |-> k]}
       /\ UNCHANGED escrows

\* The transaction is executed and its instruction succeeds.
Land ==
    /\ \E k \in 1 .. Len(sent) :
         /\ sent[k].status = "pending"
         /\ Executable(sent[k])
         /\ ProgramCreateEscrowAccount(k) \/ ProgramTransferIntoEscrow(k)
         /\ Settle(k, "landed")
    /\ UNCHANGED <<pc, inv, helper, args, escrowAccountAddress, tx, trace,
                   results, clock, cliOpts>>

\* The transaction is executed and its instruction fails: nothing changes.
Reject ==
    /\ \E k \in 1 .. Len(sent) :
         /\ sent[k].status = "pending"
         /\ Executable(sent[k])
         /\ Settle(k, "rejected")
    /\ UNCHANGED <<pc, inv, helper, args, escrowAccountAddress, tx, trace,
                   results, escrows, deposits, clock, cliOpts>>

\* A transaction whose blockhash expired before it reached a block is never
\* executed: it stays unprocessed for good.
Dropped(t) == t.status = "pending" /\ Stale(t.tx.recentBlockhash)

-----------------------------------------------------------------------------

Init ==
    /\ pc = "idle"
    /\ inv = 0
    /\ helper = "none"
    /\ args = [none |-> TRUE]
    /\ escrowAccountAddress = NoAddress
    /\ tx = NoTx
    /\ trace = <<>>
    /\ results = <<>>
    /\ sent = <<>>
    /\ escrows = {}
    /\ deposits = {}
    /\ clock = 0
    /\ cliOpts = NoOpts

Next ==
    \/ createTOE_call
    \/ createTOE_getLatestBlockhash_returns
    \/ createTOE_getLatestBlockhash_throws
    \/ createTOE_sendTransaction_returns
    \/ createTOE_sendTransaction_throws
    \/ transferIn_call
    \/ transferIn_getLatestBlockhash_returns
    \/ transferIn_getLatestBlockhash_throws
    \/ transferIn_sendTransaction_returns
    \/ transferIn_sendTransaction_throws
    \/ create_action
    \/ create_use_metaplex_returns
    \/ create_use_metaplex_throws
    \/ Tick
    \/ Land
    \/ Reject

Spec == Init /\ [][Next]_vars

-----------------------------------------------------------------------------
(* Observations used by the properties *)

Res == 1 .. Len(results)

R(n) == results[n]

CallsTo(tr, name) == {i \in 1 .. Len(tr) : tr[i].call = name}

Failures(tr) == {i \in 1 .. Len(tr) : tr[i].out # "ok"}

SentBy(n) == {k \in 1 .. Len(sent) : sent[k].inv = n}

IsHelper(h) == h \in {"createTOE", "transferIn"}

IxOf(t) == t.instructions[1]

MintOf(r) == R(r).args.nft.mint.address

StatusOf(r) == {sent[k].status : k \in SentBy(R(r).inv)}

DroppedOf(r) == \E k \in SentBy(R(r).inv) : Dropped(sent[k])

-----------------------------------------------------------------------------
(* C1: an invocation of createTOE or transferIn calls getLatestBlockhash   *)
(* and sendTransaction at most once each and has at most one transaction   *)
(* accepted; a call that fails is the last call the invocation makes,      *)
(* nothing is submitted after it, and the invocation throws exactly the    *)
(* error that call raised.                                                 *)
C1_NoRetry ==
    /\ \A r \in Res : IsHelper(R(r).helper) =>
         /\ Cardinality(CallsTo(R(r).trace, "sendTransaction")) <= 1
         /\ Cardinality(CallsTo(R(r).trace, "getLatestBlockhash")) <= 1
         /\ Cardinality(SentBy(R(r).inv)) <= 1
         /\ \A i \in Failures(R(r).trace) :
              /\ i = Len(R(r).trace)
              /\ R(r).outcome = "threw"
              /\ R(r).error = R(r).trace[i].out
              /\ SentBy(R(r).inv) = {}
         /\ R(r).outcome = "threw" => Failures(R(r).trace) # {}
    /\ IsHelper(helper) =>
         /\ Failures(trace) = {}
         /\ Cardinality(CallsTo(trace, "getLatestBlockhash")) <= 1
         /\ CallsTo(trace, "sendTransaction") = {}
         /\ SentBy(inv) = {}

\* A createTOE whose submission was refused for a stale blockhash, and a
\* transferIn whose blockhash fetch failed.
C1_Witness ==
    /\ pc = "idle"
    /\ \E r \in Res : /\ R(r).helper = "createTOE"
                      /\ R(r).error = "Blockhash not found"
                      /\ R(r).tx.recentBlockhash # clock
    /\ \E r \in Res : /\ R(r).helper = "transferIn"
                      /\ R(r).outcome = "threw"
                      /\ CallsTo(R(r).trace, "sendTransaction") = {}

-----------------------------------------------------------------------------
(* C2, as stated: whenever sendTransaction returned, createTOE returns the *)
(* address derived from nft.mint.address.                                  *)
C2_ReturnsAddress ==
    \A r \in Res :
        (R(r).helper = "createTOE" /\ SentBy(R(r).inv) # {}) =>
            /\ R(r).outcome = "returned"
            /\ R(r).value = findToePda(MintOf(r))[1]

(* C2, amended: whenever sendTransaction returned, createTOE returns what  *)
(* findToePda gave for nft.mint.address, the pair of the derived address   *)
(* and its bump seed, whose first element is the escrow account of the     *)
(* submitted instruction; this holds whatever becomes of the transaction,  *)
(* and createTOE returns only after an accepted submission.                *)
C2_ReturnsPda ==
    \A r \in Res : R(r).helper = "createTOE" =>
        /\ SentBy(R(r).inv) # {} =>
             /\ R(r).outcome = "returned"
             /\ R(r).value = findToePda(MintOf(r))
             /\ R(r).value[1] = AccountOf(IxOf(R(r).tx), "escrow")
             /\ \A k \in SentBy(R(r).inv) : sent[k].tx = R(r).tx
        /\ R(r).outcome = "returned" => SentBy(R(r).inv) # {}

\* Two createTOE calls returned; one transaction was rejected by the program
\* and the other expired without being executed.
C2_Witness ==
    /\ \E r \in Res : /\ R(r).helper = "createTOE"
                      /\ R(r).outcome = "returned"
                      /\ StatusOf(r) = {"rejected"}
    /\ \E r \in Res : /\ R(r).helper = "createTOE"
                      /\ R(r).outcome = "returned"
                      /\ DroppedOf(r)

-----------------------------------------------------------------------------
(* C3: createTOE never looks at the ledger: every call whose network calls *)
(* succeed submits one create-escrow transaction for the escrow address of *)
(* its mint, also when an earlier call did the same.  On the ledger at     *)
(* most one create transaction per address succeeds, and the account keeps *)
(* recording the one that created it.                                      *)
C3_NoIdempotencyCheck ==
    /\ \A r \in Res : R(r).helper = "createTOE" =>
         /\ \A i \in 1 .. Len(R(r).trace) :
              R(r).trace[i].call \in {"findToePda",
                                   "createCreateEscrowAccountInstruction",
                                   "Transaction.add", "getLatestBlockhash",
                                   "sendTransaction"}
         /\ R(r).outcome = "returned" =>
              /\ Cardinality(SentBy(R(r).inv)) = 1
              /\ \A k \in SentBy(R(r).inv) :
                   /\ IxOf(sent[k].tx).name = "CreateEscrowAccount"
                   /\ AccountOf(IxOf(sent[k].tx), "escrow") = findToePda(MintOf(r))[1]
    /\ \A k1, k2 \in 1 .. Len(sent) :
         ( /\ k1 < k2
           /\ IxOf(sent[k1].tx).name = "CreateEscrowAccount"
           /\ IxOf(sent[k2].tx).name = "CreateEscrowAccount"
           /\ AccountOf(IxOf(sent[k1].tx), "escrow") = AccountOf(IxOf(sent[k2].tx), "escrow") )
         => ~(sent[k1].status = "landed" /\ sent[k2].status = "landed")
    /\ \A acc \in escrows :
         /\ acc.createdBy \in 1 .. Len(sent)
         /\ sent[acc.createdBy].status = "landed"
         /\ AccountOf(IxOf(sent[acc.createdBy].tx), "escrow") = acc.address
         /\ \A other \in escrows : other.address = acc.address => other = acc

\* Two createTOE calls for the same mint both submitted; the first created
\* the account and the second was rejected by the program.
C3_Witness ==
    /\ Len(sent) = 2
    /\ Len(results) = 2
    /\ results[1].helper = "createTOE" /\ results[2].helper = "createTOE"
    /\ MintOf(1) = MintOf(2)
    /\ sent[1].status = "landed"
    /\ sent[2].status = "rejected"
    /\ escrows = {[address |-> findToePda(MintOf(1))[1], createdBy |-> 1]}

-----------------------------------------------------------------------------
(* C4: only create-escrow and transfer-into-escrow transactions are ever   *)
(* submitted, and a transferIn that threw submitted nothing; so an escrow  *)
(* account created by a landed create transaction stays on the ledger, and *)
(* its destination account holds tokens only if a transfer landed.         *)
C4_NoCleanup ==
    /\ \A k \in 1 .. Len(sent) :
         /\ IxOf(sent[k].tx).name \in {"CreateEscrowAccount", "TransferIntoEscrow"}
         /\ (IxOf(sent[k].tx).name = "CreateEscrowAccount" /\ sent[k].status = "landed")
              => EscrowExists(AccountOf(IxOf(sent[k].tx), "escrow"))
    /\ \A r \in Res : (R(r).helper = "transferIn" /\ R(r).outcome = "threw") =>
         /\ SentBy(R(r).inv) = {}
         /\ \A i \in Failures(R(r).trace) : i = Len(R(r).trace)
    /\ \A d \in deposits :
         /\ d.by \in 1 .. Len(sent)
         /\ sent[d.by].status = "landed"
         /\ IxOf(sent[d.by].tx).name = "TransferIntoEscrow"
         /\ AccountOf(IxOf(sent[d.by].tx), "attributeDst") = d.account

\* createTOE created the escrow account, the following transferIn into it
\* threw, and the helpers have ended: the account exists and holds nothing.
C4_Witness ==
    /\ pc = "idle"
    /\ Len(results) = 2
    /\ results[1].helper = "createTOE" /\ results[1].outcome = "returned"
    /\ Len(sent) = 1 /\ sent[1].status = "landed"
    /\ results[2].helper = "transferIn" /\ results[2].outcome = "threw"
    /\ results[2].args.escrowAccountAddress = results[1].value[1]
    /\ EscrowExists(results[1].value[1])
    /\ deposits = {}

-----------------------------------------------------------------------------
(* C5: every transfer-into-escrow instruction that transferIn builds,      *)
(* whether still local, refused or accepted, encodes amount 1 and index 1  *)
(* and names the same fixed constraint-model account, whatever transferIn  *)
(* was given and whatever --amount the CLI last parsed.                    *)
IsFixedTransfer(ix) ==
    /\ ix.data = << "TransferIntoEscrow", 1, 1 >>
    /\ AccountOf(ix, "constraintModel") = ConstraintModelKey

C5_FixedTransferArgs ==
    /\ \A k \in 1 .. Len(sent) :
         IxOf(sent[k].tx).name = "TransferIntoEscrow" => IsFixedTransfer(IxOf(sent[k].tx))
    /\ \A r \in Res : R(r).helper = "transferIn" => IsFixedTransfer(IxOf(R(r).tx))
    /\ helper = "transferIn" => IsFixedTransfer(IxOf(tx))

\* The CLI parsed --amount 5 and a transfer was submitted afterwards.
C5_Witness ==
    /\ cliOpts.amount = "5"
    /\ \E k \in 1 .. Len(sent) :
         /\ IxOf(sent[k].tx).name = "TransferIntoEscrow"
         /\ \E r \in Res : R(r).helper = "create" /\ R(r).inv < sent[k].inv

-----------------------------------------------------------------------------
(* C6: an invocation of the CLI's create action makes one call, to         *)
(* use_metaplex, and ends: it builds no transaction, fetches no blockhash  *)
(* and submits nothing, for every combination of options.                  *)
C6_CreateDoesNothing ==
    /\ \A r \in Res : R(r).helper = "create" =>
         /\ Len(R(r).trace) = 1
         /\ R(r).trace[1].call = "use_metaplex"
         /\ R(r).tx = NoTx
         /\ SentBy(R(r).inv) = {}
    /\ helper = "create" =>
         /\ pc = "create:use_metaplex"
         /\ trace = <<>>
         /\ tx = NoTx
         /\ SentBy(inv) = {}

\* Two create invocations with different options ended, one normally and
\* one with an error, and nothing was ever submitted.
C6_Witness ==
    /\ pc = "idle"
    /\ sent = <<>>
    /\ \E r \in Res : /\ R(r).helper = "create" /\ R(r).outcome = "returned"
                      /\ R(r).args.keypair = "id.json"
    /\ \E r \in Res : /\ R(r).helper = "create" /\ R(r).outcome = "threw"
                      /\ R(r).args.keypair = "--keypair not provided"
    /\ cliOpts.amount = "5"

-----------------------------------------------------------------------------
(* C7: transferIn submits with preflight skipped and returns as soon as    *)
(* the submission call returns: after sendTransaction it makes no further  *)
(* call, and it returns normally exactly when the submission was accepted. *)
C7_FireAndForget ==
    /\ \A k \in 1 .. Len(sent) :
         IxOf(sent[k].tx).name = "TransferIntoEscrow" => sent[k].skipPreflight
    /\ \A r \in Res : R(r).helper = "transferIn" =>
         /\ \A i \in CallsTo(R(r).trace, "sendTransaction") : i = Len(R(r).trace)
         /\ \A i \in 1 .. Len(R(r).trace) :
              R(r).trace[i].call \in {"getAssociatedTokenAddress",
                                   "createTransferIntoEscrowInstruction",
                                   "Transaction.add", "getLatestBlockhash",
                                   "sendTransaction"}
         /\ (R(r).outcome = "returned") = (SentBy(R(r).inv) # {})
         /\ R(r).outcome = "returned" => R(r).error = "none"

\* transferIn returned normally although its transaction was rejected or
\* expired: the destination token account never received the token.
C7_Witness ==
    /\ pc = "idle"
    /\ deposits = {}
    /\ \E r \in Res : /\ R(r).helper = "transferIn" /\ R(r).outcome = "returned"
                      /\ StatusOf(r) = {"rejected"}
    /\ \E r \in Res : /\ R(r).helper = "transferIn" /\ R(r).outcome = "returned"
                      /\ DroppedOf(r)

-----------------------------------------------------------------------------
-----------------------------------------------------------------------------
(* C9: the instruction createTOE builds lists exactly the escrow (the      *)
(* derived address), metadata, mint, edition, payer (the keypair's public  *)
(* key) and system-program accounts, in this order, and no constraint      *)
(* model account.                                                          *)
CreateKeys(nft, keypair) ==
    << [role |-> "escrow", pubkey |-> findToePda(nft.mint.address)[1]],
       [role |-> "metadata", pubkey |-> nft.metadataAddress],
       [role |-> "mint", pubkey |-> nft.mint.address],
       [role |-> "edition", pubkey |-> nft.edition.address],
       [role |-> "payer", pubkey |-> keypair.publicKey],
       [role |-> "systemProgram", pubkey |-> SystemProgram] >>

C9_CreateAccounts ==
    /\ \A r \in Res : R(r).helper = "createTOE" =>
         /\ Len(R(r).tx.instructions) = 1
         /\ IxOf(R(r).tx).name = "CreateEscrowAccount"
         /\ IxOf(R(r).tx).keys = CreateKeys(R(r).args.nft, R(r).args.keypair)
         /\ AccountOf(IxOf(R(r).tx), "escrowConstraintModel") = NoKey
         /\ \A k \in SentBy(R(r).inv) : sent[k].tx = R(r).tx
    /\ helper = "createTOE" =>
         /\ IxOf(tx).keys = CreateKeys(args.nft, args.keypair)
         /\ AccountOf(IxOf(tx), "escrowConstraintModel") = NoKey

\* Create-escrow instructions for two different mints and payers were
\* submitted.
C9_Witness ==
    /\ Len(sent) = 2
    /\ IxOf(sent[1].tx).name = "CreateEscrowAccount"
    /\ IxOf(sent[2].tx).name = "CreateEscrowAccount"
    /\ AccountOf(IxOf(sent[1].tx), "mint") # AccountOf(IxOf(sent[2].tx), "mint")
    /\ AccountOf(IxOf(sent[1].tx), "payer") # AccountOf(IxOf(sent[2].tx), "payer")

-----------------------------------------------------------------------------
(* C10: every accepted transaction holds one instruction; its blockhash is *)
(* the one its own invocation fetched, after adding the instruction and    *)
(* before submitting; its fee payer and only signer is the keypair the     *)
(* invocation was given; and no invocation has two accepted transactions.  *)
C10_SingleUseTransaction ==
    \A k \in 1 .. Len(sent) :
        /\ Len(sent[k].tx.instructions) = 1
        /\ SentBy(sent[k].inv) = {k}
        /\ \E r \in Res :
             /\ R(r).inv = sent[k].inv
             /\ R(r).tx = sent[k].tx
             /\ sent[k].tx.feePayer = R(r).args.keypair.publicKey
             /\ sent[k].signers = << R(r).args.keypair.publicKey >>
             /\ LET a == CallsTo(R(r).trace, "Transaction.add")
                    f == CallsTo(R(r).trace, "getLatestBlockhash")
                    s == CallsTo(R(r).trace, "sendTransaction")
                IN /\ Cardinality(a) = 1 /\ Cardinality(f) = 1 /\ Cardinality(s) = 1
                   /\ \A i \in a, j \in f, l \in s :
                        /\ i < j /\ j < l
                        /\ R(r).trace[j].out = "ok"
                        /\ R(r).trace[j].val = sent[k].tx.recentBlockhash

\* A create and a transfer were accepted, from different keypairs, with
\* different blockhashes.
C10_Witness ==
    /\ Len(sent) = 2
    /\ IxOf(sent[1].tx).name # IxOf(sent[2].tx).name
    /\ sent[1].tx.feePayer # sent[2].tx.feePayer
    /\ sent[1].tx.recentBlockhash # sent[2].tx.recentBlockhash

====
